---- MODULE Spec2Model ----
(***************************************************************************)
(* Hexagon aggregation pipeline of spatial-landuse-patterns-brazil.        *)
(*                                                                         *)
(* The state is the project's data directory (fs: path -> file content),   *)
(* the stage-04 macro-category configuration (macro_map), what the seeded  *)
(* clustering library computes for the data at hand (sklearn), the rim     *)
(* cells the H3 library adds to the covering of the AOI at hand (h3_rim)   *)
(* and the outcome of the stage that ran last (res).  Every stage script is one    *)
(* action that reads fs, either raises (err # "ok") or writes its outputs. *)
(*                                                                         *)
(* Floats are modelled as exact rationals [num, den]; NaN / None is the    *)
(* record NaN.  Binary floating-point rounding is not modelled.            *)
(***************************************************************************)
EXTENDS Integers, Sequences, FiniteSets, TLC

VARIABLES fs, macro_map, sklearn, h3_rim, res

vars == <<fs, macro_map, sklearn, h3_rim, res>>

-----------------------------------------------------------------------------
(* Bounds *)

NCells == 3          \* H3 cells of the grid universe are 1..NCells
NHex == 2            \* hexagon ids of the land-cover grid are 1..NHex
MaxRows == 2         \* most rows of the biome dataset
MaxFaults == 1       \* most raw inputs or settings off the working setup
NCellsCfg == 6       \* grid size used when the macro map is an edited config
MaxKeys == 2         \* most class codes in one zonal histogram

Cells == 1..NCells
Hexes == 1..NHex

-----------------------------------------------------------------------------
(* Generic helpers *)

RECURSIVE SumOver(_, _)
SumOver(f, S) ==
  IF S = {} THEN 0
  ELSE LET x == CHOOSE y \in S : TRUE IN f[x] + SumOver(f, S \ {x})

RECURSIVE SetToSortedSeq(_)
SetToSortedSeq(S) ==
  IF S = {} THEN << >>
  ELSE LET m == CHOOSE x \in S : \A y \in S : x <= y
       IN <<m>> \o SetToSortedSeq(S \ {m})

Range(s) == {s[i] : i \in DOMAIN s}

RECURSIVE SelectRows(_, _)
SelectRows(rows, mask) ==
  IF rows = << >> THEN << >>
  ELSE (IF mask[1] THEN <<Head(rows)>> ELSE << >>)
       \o SelectRows(Tail(rows), Tail(mask))

HeadRows(rows, n) == SubSeq(rows, 1, IF Len(rows) < n THEN Len(rows) ELSE n)

(* floats *)
NaN == [isnull |-> TRUE]
Rat(n, d) == [isnull |-> FALSE, num |-> n, den |-> d]
Zero == Rat(0, 1)
RatAdd(a, b) ==
  IF a.den = b.den THEN Rat(a.num + b.num, a.den)
  ELSE Rat(a.num * b.den + b.num * a.den, a.den * b.den)
RatGt(a, b) == a.num * b.den > b.num * a.den
RatEq(a, b) == a.num * b.den = b.num * a.den

-----------------------------------------------------------------------------
(* Files *)

NoFile == [kind |-> "absent"]
Exists(f, p) == f[p].kind # "absent"

BIOMES_PATH == "data/raw/ibge_biomas.gpkg"
AOI_GPKG == "data/processed/aoi_cerrado.gpkg"
AOI_GPQ == "data/processed/aoi_cerrado.parquet"
GRID_GPQ == "data/processed/h3_res6_cerrado.parquet"
GRID_GEOJSON == "data/processed/h3_res6_cerrado.geojson"
BIO1_TIF == "data/raw/worldclim/wc2.1_2.5m_bio_1.tif"
BIO12_TIF == "data/raw/worldclim/wc2.1_2.5m_bio_12.tif"
WC_FEAT == "data/processed/features_worldclim.parquet"
HEX_PATH_04 == "data/processed/h3_res6_pantanal.parquet"
WC_RASTER == "data/raw/worldcover/worldcover_2021_pantanal.tif"
LULC_FEAT == "data/processed/features_worldcover_pantanal.parquet"
DB_PATH == "data/database/analytics.duckdb"
HEX_GEOJSON_06 == "data/processed/h3_res6_pantanal.geojson"
OUT_TABLE == "data/processed/clusters_pantanal.parquet"
OUT_GEOJSON_06 == "data/processed/h3_res6_pantanal_clusters.geojson"
DEPLOY_GEOJSON == "app/data/pantanal_h3_res6_clusters.geojson"

Paths == {BIOMES_PATH, AOI_GPKG, AOI_GPQ, GRID_GPQ, GRID_GEOJSON, BIO1_TIF,
          BIO12_TIF, WC_FEAT, HEX_PATH_04, WC_RASTER, LULC_FEAT, DB_PATH,
          HEX_GEOJSON_06, OUT_TABLE, OUT_GEOJSON_06, DEPLOY_GEOJSON}

EmptyFs == [p \in Paths |-> NoFile]

(* outcome of one stage run: the exception class raised (or "ok"), the
   condition that raised it, what the message names, the files afterwards *)
Result(e, w, m, f) == [err |-> e, why |-> w, msg |-> m, fs |-> f]
NoMsg == << >>
Outcome(stage, r) == [stage |-> stage, err |-> r.err, why |-> r.why, msg |-> r.msg]
NoRes == [stage |-> "none", err |-> "ok", why |-> "", msg |-> NoMsg]

-----------------------------------------------------------------------------
(* Strings are sequences of one-character strings *)

UpperCh == <<"A","B","C","D","E","F","G","H","I","J","K","L","M",
             "N","O","P","Q","R","S","T","U","V","W","X","Y","Z">>
LowerChs == <<"a","b","c","d","e","f","g","h","i","j","k","l","m",
              "n","o","p","q","r","s","t","u","v","w","x","y","z">>

LowerCh(c) ==
  IF \E i \in DOMAIN UpperCh : UpperCh[i] = c
  THEN LowerChs[CHOOSE i \in DOMAIN UpperCh : UpperCh[i] = c]
  ELSE c

(* str.lower() *)
Lower(s) == [i \in DOMAIN s |-> LowerCh(s[i])]

(* str.strip() *)
RECURSIVE LStrip(_)
LStrip(s) == IF s # << >> /\ Head(s) = " " THEN LStrip(Tail(s)) ELSE s
RECURSIVE RStrip(_)
RStrip(s) ==
  IF s # << >> /\ s[Len(s)] = " " THEN RStrip(SubSeq(s, 1, Len(s) - 1)) ELSE s
Strip(s) == RStrip(LStrip(s))

(* str.contains(sub) for a pattern without regex metacharacters *)
Contains(s, sub) ==
  \E i \in 0..(Len(s) - Len(sub)) : SubSeq(s, i + 1, i + Len(sub)) = sub

-----------------------------------------------------------------------------
(* Geometry: a polygonal geometry is the set of lattice points <<lng, lat>>
   it covers, with its validity state *)

Geom(pts, st) == [pts |-> pts, state |-> st]

GeomType(g) ==
  IF \A p, q \in g.pts : \A x \in (p[1] + 1)..(q[1] - 1) : \E r \in g.pts : r[1] = x
  THEN "Polygon" ELSE "MultiPolygon"

Intersects(a, b) == a.pts \cap b.pts # {}

(* GeoDataFrame.dissolve: the union of the selected geometries *)
RECURSIVE Dissolve(_)
Dissolve(gs) ==
  IF Len(gs) = 1 THEN gs[1]
  ELSE LET rest == Dissolve(Tail(gs))
           h == Head(gs)
       IN Geom(h.pts \cup rest.pts,
               IF "invalid" \in {h.state, rest.state} THEN "invalid"
               ELSE IF "selfint" \in {h.state, rest.state} THEN "selfint"
               ELSE "valid")

(* geometry.buffer(0): repairs a self-intersection; the script allows for
   a geometry that stays invalid *)
Buffer0(g) == IF g.state = "selfint" THEN Geom(g.pts, "valid") ELSE g

IsEmpty(g) == g.pts = {}
IsValid(g) == g.state = "valid"

-----------------------------------------------------------------------------
(* Stage 01: AOI resolver *)

AOI_NAME == <<"C","e","r","r","a","d","o">>

candidates == <<<<"b","i","o","m","a">>, <<"B","I","O","M","A">>,
                <<"n","o","m","e">>, <<"N","O","M","E">>,
                <<"n","a","m","e">>, <<"N","A","M","E">>,
                <<"B","i","o","m","a">>,
                <<"N","M","_","B","I","O","M","A">>,
                <<"N","M","_","B","I","O","M">>>>

ColNames(gdf) == [i \in DOMAIN gdf.cols |-> gdf.cols[i].name]
Column(gdf, name) ==
  gdf.cols[CHOOSE i \in DOMAIN gdf.cols : gdf.cols[i].name = name]

RECURSIVE FirstSuch(_, _)
FirstSuch(seq, ok) ==
  IF seq = << >> THEN [found |-> FALSE]
  ELSE IF ok[1] THEN [found |-> TRUE, col |-> Head(seq)]
  ELSE FirstSuch(Tail(seq), Tail(ok))

_find_biome_column_column_order(gdf) ==
  LET byName == FirstSuch(ColNames(gdf),
                  [i \in DOMAIN gdf.cols |-> gdf.cols[i].name \in Range(candidates)])
      scan == FirstSuch(ColNames(gdf),
                  [i \in DOMAIN gdf.cols |->
                     /\ gdf.cols[i].dtype = "object"
                     /\ \E r \in DOMAIN gdf.cols[i].vals :
                          Contains(Lower(gdf.cols[i].vals[r]),
                                   <<"c","e","r","r","a","d","o">>)])
  IN IF byName.found THEN byName ELSE scan

_find_biome_column(gdf) ==
  LET byName == FirstSuch(candidates,
                  [i \in DOMAIN candidates |-> candidates[i] \in Range(ColNames(gdf))])
      scan == FirstSuch(ColNames(gdf),
                  [i \in DOMAIN gdf.cols |->
                     /\ gdf.cols[i].dtype = "object"
                     /\ \E r \in DOMAIN gdf.cols[i].vals :
                          Contains(Lower(gdf.cols[i].vals[r]),
                                   <<"c","e","r","r","a","d","o">>)])
  IN IF byName.found THEN byName ELSE scan

ExactMask_nostrip(vals) == [r \in DOMAIN vals |-> Lower(vals[r]) = Lower(AOI_NAME)]

ExactMask(vals) == [r \in DOMAIN vals |-> Lower(Strip(vals[r])) = Lower(AOI_NAME)]

ContainsMask(vals) == [r \in DOMAIN vals |-> Contains(Lower(vals[r]), Lower(AOI_NAME))]

FilterMask_both(vals) ==
  [r \in DOMAIN vals |-> ExactMask(vals)[r] \/ ContainsMask(vals)[r]]

(* the rows kept by the exact filter, or by the containment filter when the
   exact filter keeps none *)
FilterMask(vals) ==
  IF \E r \in DOMAIN vals : ExactMask(vals)[r]
  THEN ExactMask(vals) ELSE ContainsMask(vals)

RowIds(gdf) == [r \in 1..gdf.nrows |-> r]

Main01(f) ==
  IF ~Exists(f, BIOMES_PATH)
  THEN Result("FileNotFoundError", "input missing", <<BIOMES_PATH>>, f)
  ELSE
  LET gdf == f[BIOMES_PATH] IN
  IF gdf.nrows = 0 THEN Result("ValueError", "empty dataset", NoMsg, f)
  ELSE
  LET fc == _find_biome_column(gdf) IN
  IF ~fc.found THEN Result("ValueError", "no name column", ColNames(gdf), f)
  ELSE
  LET name_col == fc.col
      sel == SelectRows(RowIds(gdf), FilterMask(Column(gdf, name_col).vals))
  IN
  IF sel = << >> THEN Result("ValueError", "region not found", <<name_col>>, f)
  ELSE IF gdf.crs = "None" THEN Result("ValueError", "missing CRS", NoMsg, f)
  ELSE
  LET geom == Buffer0(Dissolve([i \in DOMAIN sel |-> gdf.geoms[sel[i]]])) IN
  IF IsEmpty(geom) THEN Result("ValueError", "empty geometry", NoMsg, f)
  ELSE IF ~IsValid(geom) THEN Result("ValueError", "invalid geometry", NoMsg, f)
  ELSE
  LET aoi == [kind |-> "aoi", crs |-> "EPSG:4326",
              rows |-> <<[name |-> Column(gdf, name_col).vals[sel[1]],
                          geometry |-> geom]>>]
  IN Result("ok", "", NoMsg, [f EXCEPT ![AOI_GPKG] = aoi, ![AOI_GPQ] = aoi])

Stage01 ==
  LET r == Main01(fs)
  IN /\ fs' = r.fs
     /\ res' = Outcome("01", r)
     /\ UNCHANGED <<macro_map, sklearn, h3_rim>>

-----------------------------------------------------------------------------
(* Stage 02: H3 grid over the AOI *)

(* h3.cell_to_boundary: the cell's ring as (lat, lng) pairs; cell c spans
   two lattice columns on the equator *)
cell_to_boundary(c) == {<<0, 2 * c - 1>>, <<0, 2 * c>>}

SwapLatLng(pts) == {<<p[2], p[1]>> : p \in pts}

_h3_to_polygon_noswap(h) == Geom(cell_to_boundary(h), "valid")

_h3_to_polygon(h) == Geom(SwapLatLng(cell_to_boundary(h)), "valid")

_aoi_to_h3shape(aoi_geom) ==
  IF GeomType(aoi_geom) = "Polygon"
  THEN [ok |-> TRUE, kind |-> "LatLngPoly", latlng |-> SwapLatLng(aoi_geom.pts)]
  ELSE IF GeomType(aoi_geom) = "MultiPolygon"
  THEN [ok |-> TRUE, kind |-> "LatLngMultiPoly", latlng |-> SwapLatLng(aoi_geom.pts)]
  ELSE [ok |-> FALSE]

(* h3.polygon_to_cells: every cell lying wholly inside the shape is
   returned; which other cells (rim cells) come along is the library's,
   the same on every call for the same shape and resolution *)
polygon_to_cells(h3shape, universe, rim) ==
  {c \in universe : cell_to_boundary(c) \subseteq h3shape.latlng} \cup rim

IntersectFilter_none(rows, aoi_geom) == rows

IntersectFilter(rows, aoi_geom) ==
  SelectRows(rows, [i \in DOMAIN rows |-> Intersects(rows[i].geometry, aoi_geom)])

(* area in the equal-area projection: one unit per lattice column *)
WithArea(rows) ==
  [i \in DOMAIN rows |->
     [h3_id |-> rows[i].h3_id, geometry |-> rows[i].geometry,
      area_km2 |-> Cardinality(rows[i].geometry.pts)]]

sorted_unsorted(cells) ==
  LET asc == SetToSortedSeq(cells)
  IN [i \in DOMAIN asc |-> asc[Len(asc) + 1 - i]]

sorted(cells) == SetToSortedSeq(cells)

Main02(f, cells) ==
  IF ~Exists(f, AOI_GPKG)
  THEN Result("FileNotFoundError", "input missing", <<AOI_GPKG>>, f)
  ELSE
  LET aoi == f[AOI_GPKG] IN
  IF aoi.rows = << >> THEN Result("ValueError", "empty AOI", NoMsg, f)
  ELSE IF aoi.crs = "None" THEN Result("ValueError", "missing CRS", NoMsg, f)
  ELSE
  LET aoi_geom == aoi.rows[1].geometry IN
  IF ~_aoi_to_h3shape(aoi_geom).ok
  THEN Result("ValueError", "unsupported geometry", NoMsg, f)
  ELSE IF cells = {} THEN Result("ValueError", "empty covering", NoMsg, f)
  ELSE
  LET ids == sorted(cells)
      df == [i \in DOMAIN ids |-> [h3_id |-> ids[i], geometry |-> _h3_to_polygon(ids[i])]]
      gdf == WithArea(IntersectFilter(df, aoi_geom))
      grid == [kind |-> "grid", crs |-> "EPSG:4326", rows |-> gdf]
  IN Result("ok", "", NoMsg, [f EXCEPT ![GRID_GPQ] = grid, ![GRID_GEOJSON] = grid])

Stage02 ==
  /\ LET cells == IF Exists(fs, AOI_GPKG) /\ fs[AOI_GPKG].rows # << >>
                  THEN polygon_to_cells(_aoi_to_h3shape(fs[AOI_GPKG].rows[1].geometry),
                                        Cells, h3_rim)
                  ELSE {}
         r == Main02(fs, cells)
     IN /\ fs' = r.fs
        /\ res' = Outcome("02", r)
  /\ UNCHANGED <<macro_map, sklearn, h3_rim>>

-----------------------------------------------------------------------------
(* Stage 03: WorldClim means per hexagon *)

(* a table read back from parquet written with index=False has the default
   index: row i is labelled i *)
RangeIndex(rows) == [i \in DOMAIN rows |-> i]

(* zonal_stats(stats=["mean"]): the mean per row in row order, None where
   the footprint has no valid pixel; the Series has the default index *)
_zs_mean_zero(gdf, raster) ==
  [i \in DOMAIN gdf |->
     IF raster.mean[gdf[i].h3_id].isnull THEN Rat(0, 1) ELSE raster.mean[gdf[i].h3_id]]

_zs_mean(gdf, raster) == [i \in DOMAIN gdf |-> raster.mean[gdf[i].h3_id]]

(* df[col] = series: values are aligned on the index labels *)
AssignAligned(index, series) ==
  [i \in DOMAIN index |-> IF index[i] \in DOMAIN series THEN series[index[i]] ELSE NaN]

RatDiv(a, k) == IF a.isnull THEN NaN ELSE Rat(a.num, a.den * k)

Main03_writes_early(f) ==
  IF ~Exists(f, GRID_GPQ)
  THEN Result("FileNotFoundError", "hex grid missing", <<GRID_GPQ>>, f)
  ELSE IF ~Exists(f, BIO1_TIF)
  THEN Result("FileNotFoundError", "raster missing", <<BIO1_TIF>>, f)
  ELSE
  LET gdf == f[GRID_GPQ].rows
      raw == AssignAligned(RangeIndex(gdf), _zs_mean(gdf, f[BIO1_TIF]))
      part == [i \in DOMAIN gdf |->
                 [h3_id |-> gdf[i].h3_id, bio1_mean_raw |-> raw[i],
                  bio1_mean_c |-> RatDiv(raw[i], 10), bio12_mean_mm |-> NaN]]
      g == [f EXCEPT ![WC_FEAT] = [kind |-> "table", rows |-> part]]
  IN IF ~Exists(f, BIO12_TIF)
     THEN Result("FileNotFoundError", "raster missing", <<BIO12_TIF>>, g)
     ELSE LET bio12 == AssignAligned(RangeIndex(gdf), _zs_mean(gdf, f[BIO12_TIF]))
          IN Result("ok", "", NoMsg,
                    [f EXCEPT ![WC_FEAT] =
                       [kind |-> "table",
                        rows |-> [i \in DOMAIN gdf |->
                                    [h3_id |-> gdf[i].h3_id, bio1_mean_raw |-> raw[i],
                                     bio1_mean_c |-> RatDiv(raw[i], 10),
                                     bio12_mean_mm |-> bio12[i]]]]])

Main03(f) ==
  IF ~Exists(f, GRID_GPQ)
  THEN Result("FileNotFoundError", "hex grid missing", <<GRID_GPQ>>, f)
  ELSE
  LET gdf == f[GRID_GPQ].rows
      index == RangeIndex(gdf)
  IN
  IF ~Exists(f, BIO1_TIF)
  THEN Result("FileNotFoundError", "raster missing", <<BIO1_TIF>>, f)
  ELSE
  LET bio1_mean_raw == AssignAligned(index, _zs_mean(gdf, f[BIO1_TIF])) IN
  IF ~Exists(f, BIO12_TIF)
  THEN Result("FileNotFoundError", "raster missing", <<BIO12_TIF>>, f)
  ELSE
  LET bio12 == AssignAligned(index, _zs_mean(gdf, f[BIO12_TIF]))
      df == [i \in DOMAIN gdf |->
               [h3_id |-> gdf[i].h3_id,
                bio1_mean_raw |-> bio1_mean_raw[i],
                bio1_mean_c |-> RatDiv(bio1_mean_raw[i], 10),
                bio12_mean_mm |-> bio12[i]]]
  IN Result("ok", "", NoMsg, [f EXCEPT ![WC_FEAT] = [kind |-> "table", rows |-> df]])

Stage03 ==
  LET r == Main03(fs)
  IN /\ fs' = r.fs
     /\ res' = Outcome("03", r)
     /\ UNCHANGED <<macro_map, sklearn, h3_rim>>

-----------------------------------------------------------------------------
(* Stage 04: WorldCover class proportions per hexagon *)

MACRO_MAP_missing30 ==
  [p_tree |-> {10}, p_shrub_grass |-> {20}, p_cropland |-> {40},
   p_built |-> {50}, p_bare |-> {60}, p_water |-> {80},
   p_wetland |-> {90, 95}, p_other |-> {70, 100}]

MACRO_MAP_overlap ==
  [p_tree |-> {10}, p_shrub_grass |-> {20, 30}, p_cropland |-> {40},
   p_built |-> {50}, p_bare |-> {60}, p_water |-> {80},
   p_wetland |-> {90, 95}, p_other |-> {10, 70, 100}]

MACRO_MAP ==
  [p_tree |-> {10}, p_shrub_grass |-> {20, 30}, p_cropland |-> {40},
   p_built |-> {50}, p_bare |-> {60}, p_water |-> {80},
   p_wetland |-> {90, 95}, p_other |-> {70, 100}]

prop_cols == <<"p_tree", "p_shrub_grass", "p_cropland", "p_built",
               "p_bare", "p_water", "p_wetland", "p_other">>

(* a zonal_stats(categorical=True) entry: None, or a dict code -> count *)
NoneZs == [kind |-> "None"]
DictZs(d) == [kind |-> "dict", d |-> d]

DictGet(d, c, default) == IF c \in DOMAIN d THEN d[c] ELSE default

(* the table is read with the hexagons' rows; zonal_stats yields one entry
   per row, in row order *)
zonal_stats(rows, raster) == [i \in DOMAIN rows |-> raster.zs[rows[i].h3_id]]

px_total_mapped_only(z) ==
  IF z.kind = "None" THEN 0
  ELSE SumOver(z.d, DOMAIN z.d \cap UNION {MACRO_MAP[m] : m \in DOMAIN MACRO_MAP})

px_total(z) ==
  IF z.kind = "None" THEN 0 ELSE SumOver(z.d, DOMAIN z.d)

MacroCount(z, classes) ==
  IF z.kind = "None" \/ DOMAIN z.d = {} THEN 0
  ELSE SumOver([c \in classes |-> DictGet(z.d, c, 0)], classes)

(* df[prop_cols].div(px_total.replace(0, nan)).fillna(0.0) *)
Proportion_nan_kept(count, total) ==
  IF total = 0 THEN NaN ELSE Rat(count, total)

Proportion(count, total) ==
  IF total = 0 THEN Zero ELSE Rat(count, total)

(* DataFrame.sum(axis=1): NaN cells are skipped *)
RECURSIVE RowSum(_, _)
RowSum(p, cols) ==
  IF cols = << >> THEN Zero
  ELSE LET rest == RowSum(p, Tail(cols))
       IN IF p[Head(cols)].isnull THEN rest
          ELSE IF Len(cols) = 1 THEN p[cols[1]]
          ELSE RatAdd(p[Head(cols)], rest)

FeatureRow(id, z, mm) ==
  LET tot == px_total(z)
      p == [m \in DOMAIN mm |-> Proportion(MacroCount(z, mm[m]), tot)]
  IN [h3_id |-> id, px_total |-> tot, p |-> p, p_sum |-> RowSum(p, prop_cols)]

Tolerance == Rat(101, 100)

HeadN == 5

Overflow_strict1(row) == RatGt(row.p_sum, Rat(1, 1))

Overflow(row) == RatGt(row.p_sum, Tolerance)

BadRows_all(rows) ==
  LET sel == SelectRows(rows, [i \in DOMAIN rows |-> Overflow(rows[i])])
  IN [i \in DOMAIN sel |-> [h3_id |-> sel[i].h3_id, p_sum |-> sel[i].p_sum]]

BadRows(rows) ==
  LET sel == SelectRows(rows, [i \in DOMAIN rows |-> Overflow(rows[i])])
      hd == HeadRows(sel, HeadN)
  IN [i \in DOMAIN hd |-> [h3_id |-> hd[i].h3_id, p_sum |-> hd[i].p_sum]]

Main04(f, mm) ==
  IF ~Exists(f, HEX_PATH_04) THEN Result("FileNotFoundError", "hex grid missing", <<HEX_PATH_04>>, f)
  ELSE IF ~Exists(f, WC_RASTER) THEN Result("FileNotFoundError", "raster missing", <<WC_RASTER>>, f)
  ELSE
    LET gdf == f[HEX_PATH_04].rows
        zs == zonal_stats(gdf, f[WC_RASTER])
        df == [i \in DOMAIN gdf |-> FeatureRow(gdf[i].h3_id, zs[i], mm)]
    IN IF \E i \in DOMAIN df : Overflow(df[i])
       THEN Result("ValueError", "proportion overflow", BadRows(df), f)
       ELSE Result("ok", "", NoMsg,
                   [f EXCEPT ![LULC_FEAT] = [kind |-> "table", rows |-> df]])

Stage04 ==
  LET r == Main04(fs, macro_map)
  IN /\ fs' = r.fs
     /\ res' = Outcome("04", r)
     /\ UNCHANGED <<macro_map, sklearn, h3_rim>>

-----------------------------------------------------------------------------
(* Left joins on h3_id *)

Matches(right, id) ==
  SelectRows(right, [j \in DOMAIN right |-> right[j].h3_id = id])

RECURSIVE LeftJoin_inner(_, _)
LeftJoin_inner(left, right) ==
  IF left = << >> THEN << >>
  ELSE LET m == Matches(right, Head(left).h3_id)
       IN [j \in DOMAIN m |-> [l |-> Head(left), hit |-> TRUE, r |-> m[j]]]
          \o LeftJoin_inner(Tail(left), right)

(* one output row per matching right row, one unmatched output row when
   there is none; left order is kept *)
RECURSIVE LeftJoin(_, _)
LeftJoin(left, right) ==
  IF left = << >> THEN << >>
  ELSE LET m == Matches(right, Head(left).h3_id)
       IN (IF m = << >> THEN <<[l |-> Head(left), hit |-> FALSE]>>
           ELSE [j \in DOMAIN m |-> [l |-> Head(left), hit |-> TRUE, r |-> m[j]]])
          \o LeftJoin(Tail(left), right)

RECURSIVE DropDuplicates(_)
DropDuplicates(rows) ==
  IF rows = << >> THEN << >>
  ELSE LET init == DropDuplicates(SubSeq(rows, 1, Len(rows) - 1))
           last == rows[Len(rows)]
       IN IF last \in Range(init) THEN init ELSE Append(init, last)

-----------------------------------------------------------------------------
(* Stage 05: DuckDB warehouse *)

Main05(f) ==
  IF ~Exists(f, GRID_GPQ)
  THEN Result("FileNotFoundError", "hex grid missing", <<GRID_GPQ>>, f)
  ELSE IF ~Exists(f, WC_FEAT)
  THEN Result("FileNotFoundError", "input missing", <<WC_FEAT>>, f)
  ELSE
  LET hex_df == DropDuplicates([i \in DOMAIN f[GRID_GPQ].rows |->
                                  [h3_id |-> f[GRID_GPQ].rows[i].h3_id]])
      env_df == f[WC_FEAT].rows
      j == LeftJoin(hex_df, env_df)
      feat_all == [i \in DOMAIN j |->
                     [h3_id |-> j[i].l.h3_id,
                      bio1_mean_c |-> IF j[i].hit THEN j[i].r.bio1_mean_c ELSE NaN,
                      bio12_mean_mm |-> IF j[i].hit THEN j[i].r.bio12_mean_mm ELSE NaN]]
  IN Result("ok", "", NoMsg,
            [f EXCEPT ![DB_PATH] = [kind |-> "duckdb", dim_hex |-> hex_df,
                                    feat_env |-> env_df, feat_all |-> feat_all]])

Stage05 ==
  LET r == Main05(fs)
  IN /\ fs' = r.fs
     /\ res' = Outcome("05", r)
     /\ UNCHANGED <<macro_map, sklearn, h3_rim>>

-----------------------------------------------------------------------------
(* Stage 06: clustering *)

k_candidates == <<4, 5, 6, 7, 8>>

(* silhouette scores are held in hundredths *)
InitialBest == [isnone |-> TRUE, score |-> -100]

RECURSIVE BestK_last_max(_, _, _)
BestK_last_max(ks, scores, best) ==
  IF ks = << >> THEN best
  ELSE BestK_last_max(Tail(ks), Tail(scores),
             IF Head(scores) >= best.score
             THEN [isnone |-> FALSE, k |-> Head(ks), score |-> Head(scores)]
             ELSE best)

RECURSIVE BestK(_, _, _)
BestK(ks, scores, best) ==
  IF ks = << >> THEN best
  ELSE BestK(Tail(ks), Tail(scores),
             IF Head(scores) > best.score
             THEN [isnone |-> FALSE, k |-> Head(ks), score |-> Head(scores)]
             ELSE best)

MergeClimate(lulc, wc) ==
  LET j == LeftJoin(lulc, wc)
  IN [i \in DOMAIN j |->
        [h3_id |-> j[i].l.h3_id, px_total |-> j[i].l.px_total,
         p |-> j[i].l.p, p_sum |-> j[i].l.p_sum,
         bio1_mean_c |-> IF j[i].hit THEN j[i].r.bio1_mean_c ELSE NaN,
         bio12_mean_mm |-> IF j[i].hit THEN j[i].r.bio12_mean_mm ELSE NaN]]

Main06(f, sk) ==
  IF ~Exists(f, HEX_GEOJSON_06)
  THEN Result("FileNotFoundError", "input missing", <<HEX_GEOJSON_06>>, f)
  ELSE IF ~Exists(f, LULC_FEAT)
  THEN Result("FileNotFoundError", "input missing", <<LULC_FEAT>>, f)
  ELSE IF ~Exists(f, WC_FEAT)
  THEN Result("FileNotFoundError", "input missing", <<WC_FEAT>>, f)
  ELSE
  LET df == MergeClimate(f[LULC_FEAT].rows, f[WC_FEAT].rows) IN
  IF ~sk.fits THEN Result("ValueError", "clustering failed", NoMsg, f)
  ELSE
  LET best == BestK(k_candidates, sk.scores, InitialBest) IN
  IF best.isnone THEN Result("InvalidParameterError", "no cluster count", NoMsg, f)
  ELSE
  LET out == [i \in DOMAIN df |->
                [h3_id |-> df[i].h3_id, px_total |-> df[i].px_total,
                 p |-> df[i].p, p_sum |-> df[i].p_sum,
                 bio1_mean_c |-> df[i].bio1_mean_c,
                 bio12_mean_mm |-> df[i].bio12_mean_mm,
                 cluster_id |-> sk.labels[df[i].h3_id] % best.k,
                 cluster_k |-> best.k, silhouette |-> best.score]]
      hex == f[HEX_GEOJSON_06].rows
      j == LeftJoin(hex, out)
      gdf == [i \in DOMAIN j |->
                IF j[i].hit
                THEN [h3_id |-> j[i].l.h3_id, geometry |-> j[i].l.geometry,
                      area_km2 |-> j[i].l.area_km2, matched |-> TRUE,
                      cluster_id |-> j[i].r.cluster_id, p |-> j[i].r.p,
                      bio1_mean_c |-> j[i].r.bio1_mean_c,
                      bio12_mean_mm |-> j[i].r.bio12_mean_mm]
                ELSE [h3_id |-> j[i].l.h3_id, geometry |-> j[i].l.geometry,
                      area_km2 |-> j[i].l.area_km2, matched |-> FALSE]]
  IN Result("ok", "", NoMsg,
            [f EXCEPT ![OUT_TABLE] = [kind |-> "table", rows |-> out],
                      ![OUT_GEOJSON_06] = [kind |-> "grid", crs |-> "EPSG:4326",
                                           rows |-> gdf]])

Stage06 ==
  LET r == Main06(fs, sklearn)
  IN /\ fs' = r.fs
     /\ res' = Outcome("06", r)
     /\ UNCHANGED <<macro_map, sklearn, h3_rim>>

-----------------------------------------------------------------------------
(* Stage 07: deploy export *)

KEEP_P == {"p_wetland", "p_tree", "p_shrub_grass", "p_water", "p_cropland"}

Main07(f) ==
  IF ~Exists(f, OUT_GEOJSON_06)
  THEN Result("DataSourceError", "input missing", <<OUT_GEOJSON_06>>, f)
  ELSE
  LET gdf == f[OUT_GEOJSON_06].rows
      kept == [i \in DOMAIN gdf |->
                 IF gdf[i].matched
                 THEN [h3_id |-> gdf[i].h3_id, geometry |-> gdf[i].geometry,
                       matched |-> TRUE, cluster_id |-> gdf[i].cluster_id,
                       p |-> [c \in KEEP_P |-> gdf[i].p[c]],
                       bio1_mean_c |-> gdf[i].bio1_mean_c,
                       bio12_mean_mm |-> gdf[i].bio12_mean_mm]
                 ELSE [h3_id |-> gdf[i].h3_id, geometry |-> gdf[i].geometry,
                       matched |-> FALSE]]
  IN Result("ok", "", NoMsg,
            [f EXCEPT ![DEPLOY_GEOJSON] = [kind |-> "grid", crs |-> "EPSG:4326",
                                           rows |-> kept]])

Stage07 ==
  LET r == Main07(fs)
  IN /\ fs' = r.fs
     /\ res' = Outcome("07", r)
     /\ UNCHANGED <<macro_map, sklearn, h3_rim>>

-----------------------------------------------------------------------------
(* Inputs of the land-cover stage *)

(* silhouette means the library can return, in hundredths: the mean is
   never -1, since a sample scores -1 only next to a cluster of points
   identical to it, whose members then score 0 or more *)
ScoreVals == {-50, 0, 50}
DefaultSklearn ==
  [fits |-> TRUE, scores |-> <<0, 50, 50, 0, -50>>,
   labels |-> [c \in 1..NCellsCfg |-> c]]

SampleCodes == {0, 10, 20, 30}
PxCounts == {3, 7}

Dicts(codes, counts, maxKeys) ==
  UNION {[S -> counts] : S \in {T \in SUBSET codes : Cardinality(T) <= maxKeys}}

ZsEntries == {NoneZs} \cup {DictZs(d) : d \in Dicts(SampleCodes, PxCounts, MaxKeys)}

GridRow(c) == [h3_id |-> c, geometry |-> _h3_to_polygon(c), area_km2 |-> 2]
GridOf(S) ==
  LET ids == SetToSortedSeq(S)
  IN [kind |-> "grid", crs |-> "EPSG:4326",
      rows |-> [i \in DOMAIN ids |-> GridRow(ids[i])]]

PlainEntries == {NoneZs, DictZs(<< >>), DictZs((0 :> 3) @@ (10 :> 7))}

(* one hexagon has any histogram of ZsEntries, the others a plain one *)
InitLulc ==
  /\ \E S \in SUBSET Hexes :
       \/ fs = [EmptyFs EXCEPT ![HEX_PATH_04] = GridOf(S)]
       \/ \E plain \in [Hexes -> PlainEntries], h \in Hexes, e \in ZsEntries :
            fs = [EmptyFs EXCEPT
                    ![HEX_PATH_04] = GridOf(S),
                    ![WC_RASTER] = [kind |-> "raster", zs |-> [plain EXCEPT ![h] = e]]]
  /\ macro_map = MACRO_MAP
  /\ sklearn = DefaultSklearn
  /\ h3_rim = {}
  /\ res = NoRes

NextLulc == Stage04

SpecLulc == InitLulc /\ [][NextLulc]_vars

(* the same stage run with an edited class -> macro-category configuration *)
OverlapMap ==
  [p_tree |-> {10}, p_shrub_grass |-> {10, 20, 30}, p_cropland |-> {40},
   p_built |-> {50}, p_bare |-> {60}, p_water |-> {80},
   p_wetland |-> {90, 95}, p_other |-> {70, 100}]

MacroMapConfigs == {MACRO_MAP, OverlapMap}

CfgEntries == {DictZs((10 :> 3)), DictZs((10 :> 1) @@ (20 :> 100)),
               DictZs((0 :> 3) @@ (20 :> 7))}

InitCfg ==
  /\ \E n \in 0..NCellsCfg, zs \in [1..NCellsCfg -> CfgEntries] :
       fs = [EmptyFs EXCEPT
               ![HEX_PATH_04] = GridOf(1..n),
               ![WC_RASTER] = [kind |-> "raster", zs |-> zs]]
  /\ macro_map \in MacroMapConfigs
  /\ sklearn = DefaultSklearn
  /\ h3_rim = {}
  /\ res = NoRes

SpecCfg == InitCfg /\ [][NextLulc]_vars

-----------------------------------------------------------------------------
(* Inputs of the AOI resolver: a biome dataset of up to MaxRows rows *)

NameVals == {<<"C","e","r","r","a","d","o">>,
             <<" ","C","E","R","R","A","D","O"," ">>,
             <<"C","e","r","r","a","d","o","-","P","a","n","t","a","n","a","l">>,
             <<"P","a","n","t","a","n","a","l">>}

Layouts == {<<[name |-> <<"N","O","M","E">>, dtype |-> "object"]>>,
            <<[name |-> <<"d","e","s","c","r">>, dtype |-> "object"]>>,
            <<[name |-> <<"c","d">>, dtype |-> "int64"],
              [name |-> <<"d","e","s","c","r">>, dtype |-> "object"]>>,
            <<[name |-> <<"N","M","_","B","I","O","M","A">>, dtype |-> "object"],
              [name |-> <<"b","i","o","m","a">>, dtype |-> "object"]>>,
            <<[name |-> <<"c","d">>, dtype |-> "int64"]>>}

Defects == {"valid", "selfint", "invalid", "empty"}

(* row r of the dataset is a polygon over the lattice columns 2r, 2r+1 *)
RowGeom(r, defect) ==
  IF defect = "empty" THEN Geom({}, "valid")
  ELSE Geom({<<2 * r, 0>>, <<2 * r + 1, 0>>}, defect)

Dataset(layout, n, vals, defect, crs) ==
  [kind |-> "vector", nrows |-> n, crs |-> crs,
   cols |-> [i \in DOMAIN layout |->
               [name |-> layout[i].name, dtype |-> layout[i].dtype,
                vals |-> IF layout[i].dtype = "object" THEN vals[i]
                         ELSE [r \in 1..n |-> <<"7">>]]],
   geoms |-> [r \in 1..n |-> RowGeom(r, defect)]]

InitAOI ==
  /\ \/ fs = EmptyFs
     \/ \E layout \in Layouts, n \in 0..MaxRows :
          \E vals \in [DOMAIN layout -> [1..n -> NameVals]],
             defect \in Defects, crs \in {"EPSG:4674", "None"} :
            fs = [EmptyFs EXCEPT
                    ![BIOMES_PATH] = Dataset(layout, n, vals, defect, crs)]
  /\ macro_map = MACRO_MAP
  /\ sklearn = DefaultSklearn
  /\ h3_rim = {}
  /\ res = NoRes

NextAOI == Stage01

SpecAOI == InitAOI /\ [][NextAOI]_vars

-----------------------------------------------------------------------------
(* The name-column lookup on its own: main() calls it on the dataset it has
   read (line 64); the call returns the column name or raises ValueError *)

Call_find_biome_column ==
  /\ Exists(fs, BIOMES_PATH)
  /\ LET gdf == fs[BIOMES_PATH]
         c == _find_biome_column(gdf)
     IN res' = Outcome("_find_biome_column",
                 IF c.found THEN Result("ok", "", <<c.col>>, fs)
                 ELSE Result("ValueError", "no name column", ColNames(gdf), fs))
  /\ UNCHANGED <<fs, macro_map, sklearn, h3_rim>>

LayoutsCol ==
  Layouts \cup
  {<<[name |-> <<"o","b","s">>, dtype |-> "object"],
     [name |-> <<"d","e","s","c","r">>, dtype |-> "object"]>>,
   <<[name |-> <<"d","e","s","c","r">>, dtype |-> "object"],
     [name |-> <<"N","O","M","E">>, dtype |-> "object"]>>,
   <<[name |-> <<"N","O","M","E">>, dtype |-> "int64"],
     [name |-> <<"d","e","s","c","r">>, dtype |-> "object"]>>}

InitCol ==
  /\ \E layout \in LayoutsCol, n \in 0..MaxRows :
       \E vals \in [DOMAIN layout -> [1..n -> NameVals]] :
         fs = [EmptyFs EXCEPT
                 ![BIOMES_PATH] = Dataset(layout, n, vals, "valid", "EPSG:4674")]
  /\ macro_map = MACRO_MAP
  /\ sklearn = DefaultSklearn
  /\ h3_rim = {}
  /\ res = NoRes

NextCol == Call_find_biome_column

SpecCol == InitCol /\ [][NextCol]_vars

-----------------------------------------------------------------------------
(* Inputs of the grid builder: an AOI file as stage 01 writes it (one row,
   a valid non-empty geometry, EPSG:4326), or no AOI file *)

LatticePts == {<<x, 0>> : x \in 1..(2 * NCells)}

AoiFile(pts) ==
  [kind |-> "aoi", crs |-> "EPSG:4326",
   rows |-> <<[name |-> AOI_NAME, geometry |-> Geom(pts, "valid")]>>]

InitGrid ==
  /\ \E a \in {NoFile} \cup {AoiFile(pts) : pts \in (SUBSET LatticePts) \ {{}}} :
       fs = [EmptyFs EXCEPT ![AOI_GPKG] = a, ![AOI_GPQ] = a]
  /\ macro_map = MACRO_MAP
  /\ sklearn = DefaultSklearn
  /\ h3_rim \in SUBSET Cells
  /\ res = NoRes

NextGrid == Stage02

SpecGrid == InitGrid /\ [][NextGrid]_vars

(* Inputs of the climate stage: a grid as stage 02 writes it and the two
   WorldClim rasters, each covering some of the hexagons *)

MeanVals == {NaN, Rat(0, 1), Rat(250, 1)}

ClimRasters(vals) == {[kind |-> "raster", mean |-> m] : m \in [Cells -> vals]}

InitClim ==
  /\ \E S \in SUBSET Cells, b1 \in {NoFile} \cup ClimRasters(MeanVals),
        b12 \in {NoFile} \cup ClimRasters({NaN, Rat(250, 1)}), hasGrid \in BOOLEAN :
       /\ ~hasGrid => (S = {} /\ b1 = NoFile /\ b12 = NoFile)
       /\ fs = [EmptyFs EXCEPT
                  ![GRID_GPQ] = IF hasGrid THEN GridOf(S) ELSE NoFile,
                  ![GRID_GEOJSON] = IF hasGrid THEN GridOf(S) ELSE NoFile,
                  ![BIO1_TIF] = b1, ![BIO12_TIF] = b12]
  /\ macro_map = MACRO_MAP
  /\ sklearn = DefaultSklearn
  /\ h3_rim = {}
  /\ res = NoRes

NextClim == Stage03

SpecClim == InitClim /\ [][NextClim]_vars

(* Inputs of the merge: the land-cover grid and raster, the climate grid
   and rasters; stages 03 and 04 build the two feature tables from them *)

WcRasterFixed ==
  [kind |-> "raster",
   zs |-> [h \in Hexes |-> IF h = 1 THEN DictZs((10 :> 7) @@ (20 :> 3)) ELSE NoneZs]]

InitMerge ==
  /\ \E S \in SUBSET Cells, P \in SUBSET Hexes, m \in [Cells -> {NaN, Rat(250, 1)}] :
       fs = [EmptyFs EXCEPT
               ![GRID_GPQ] = GridOf(S), ![GRID_GEOJSON] = GridOf(S),
               ![BIO1_TIF] = [kind |-> "raster", mean |-> m],
               ![BIO12_TIF] = [kind |-> "raster", mean |-> [c \in Cells |-> Rat(1200, 1)]],
               ![HEX_PATH_04] = GridOf(P), ![HEX_GEOJSON_06] = GridOf(P),
               ![WC_RASTER] = WcRasterFixed]
  /\ macro_map = MACRO_MAP
  /\ \E ok \in BOOLEAN : sklearn = [DefaultSklearn EXCEPT !.fits = ok]
  /\ h3_rim = {}
  /\ res = NoRes

NextMerge == Stage03 \/ Stage04 \/ Stage05 \/ Stage06

SpecMerge == InitMerge /\ [][NextMerge]_vars

-----------------------------------------------------------------------------
(* The pipeline: the raw inputs are present or not, the processed directory
   holds at most a land-cover grid put there by hand; any stage may be run
   at any time *)

NomeLayout == <<[name |-> <<"N","O","M","E">>, dtype |-> "object"]>>
CdLayout == <<[name |-> <<"c","d">>, dtype |-> "int64"]>>
TwoNames == <<<<<<"C","e","r","r","a","d","o">>, <<"P","a","n","t","a","n","a","l">>>>>>
NoCerrado == <<<<<<"P","a","n","t","a","n","a","l">>, <<"C","a","a","t","i","n","g","a">>>>>>

GoodBiomes == Dataset(NomeLayout, 2, TwoNames, "selfint", "EPSG:4674")

PipelineBiomes ==
  {NoFile,
   Dataset(NomeLayout, 0, <<<< >>>>, "valid", "EPSG:4674"),
   Dataset(CdLayout, 2, TwoNames, "valid", "EPSG:4674"),
   Dataset(NomeLayout, 2, NoCerrado, "valid", "EPSG:4674"),
   Dataset(NomeLayout, 2, TwoNames, "valid", "None"),
   Dataset(NomeLayout, 2, TwoNames, "empty", "EPSG:4674"),
   Dataset(NomeLayout, 2, TwoNames, "invalid", "EPSG:4674"),
   GoodBiomes}

PipelineClim == [kind |-> "raster", mean |-> [c \in Cells |-> IF c = 1 THEN NaN ELSE Rat(250, 1)]]

PipelineWc ==
  [kind |-> "raster",
   zs |-> [h \in Hexes |-> IF h = 1 THEN DictZs((10 :> 7) @@ (20 :> 3)) ELSE DictZs((10 :> 3))]]

Fault(b) == IF b THEN 1 ELSE 0

Init ==
  /\ \E b \in PipelineBiomes, b1 \in {NoFile, PipelineClim},
        b12 \in {NoFile, PipelineClim}, wc \in {NoFile, PipelineWc},
        g \in {NoFile, GridOf(Hexes)}, mm \in MacroMapConfigs, ok \in BOOLEAN :
       /\ Fault(b # GoodBiomes) + Fault(b1 = NoFile) + Fault(b12 = NoFile)
            + Fault(wc = NoFile) + Fault(g = NoFile) + Fault(mm # MACRO_MAP)
            + Fault(~ok) <= MaxFaults
       /\ fs = [EmptyFs EXCEPT
                  ![BIOMES_PATH] = b, ![BIO1_TIF] = b1, ![BIO12_TIF] = b12,
                  ![WC_RASTER] = wc, ![HEX_PATH_04] = g, ![HEX_GEOJSON_06] = g]
       /\ macro_map = mm
       /\ sklearn = [DefaultSklearn EXCEPT !.fits = ok]
       /\ h3_rim \in SUBSET Cells
  /\ res = NoRes

Next ==
  \/ Stage01
  \/ Stage02
  \/ Stage03
  \/ Stage04
  \/ Stage05
  \/ Stage06
  \/ Stage07

Spec == Init /\ [][Next]_vars

-----------------------------------------------------------------------------
(* Properties of stage 04 *)

LegendCodes == {10, 20, 30, 40, 50, 60, 70, 80, 90, 95, 100}

CountIn(d, S) == SumOver(d, DOMAIN d \cap S)
AllCount(d) == SumOver(d, DOMAIN d)
MacroOf(c) == {m \in DOMAIN macro_map : c \in macro_map[m]}
HistOf(id) == fs[WC_RASTER].zs[id]
Ran04 == res.stage = "04" /\ Exists(fs, HEX_PATH_04) /\ Exists(fs, WC_RASTER)
LulcRows == fs[LULC_FEAT].rows
Covered(z) == z.kind = "dict" /\ AllCount(z.d) # 0
Within1pct(r) == 99 * r.den <= 100 * r.num /\ 100 * r.num <= 101 * r.den

(* C1: for every hexagon with px_total # 0 and every macro-category the
   stored proportion is (pixels of the codes mapped to the category) /
   (all pixels of the histogram); a 70/30 histogram over two categories
   gives 0.70, 0.30 and p_sum 1.00 *)
C1_ProportionIsShareOfAllPixels ==
  Exists(fs, LULC_FEAT) =>
    \A i \in DOMAIN LulcRows :
      LET row == LulcRows[i]
          z == HistOf(row.h3_id)
      IN Covered(z) =>
           /\ row.px_total = AllCount(z.d)
           /\ \A m \in DOMAIN macro_map :
                /\ ~row.p[m].isnull
                /\ row.p[m].num * AllCount(z.d)
                     = CountIn(z.d, macro_map[m]) * row.p[m].den
           /\ \A a, b \in DOMAIN z.d, ma, mb \in DOMAIN macro_map :
                (/\ DOMAIN z.d = {a, b} /\ z.d[a] = 7 /\ z.d[b] = 3
                 /\ MacroOf(a) = {ma} /\ MacroOf(b) = {mb} /\ ma # mb)
                => /\ RatEq(row.p[ma], Rat(70, 100))
                   /\ RatEq(row.p[mb], Rat(30, 100))
                   /\ RatEq(row.p_sum, Rat(1, 1))

C1_Witness ==
  /\ Exists(fs, LULC_FEAT)
  /\ \E i \in DOMAIN LulcRows :
       /\ HistOf(LulcRows[i].h3_id) = DictZs((10 :> 7) @@ (20 :> 3))
       /\ LulcRows[i].p["p_tree"] = Rat(7, 10)
       /\ LulcRows[i].p["p_shrub_grass"] = Rat(3, 10)

(* C2 as stated: every hexagon with px_total # 0, whatever its class codes,
   has p_sum within 1.0 +- 0.01 *)
C2_SumIsOneWhateverCodes ==
  Exists(fs, LULC_FEAT) =>
    \A i \in DOMAIN LulcRows :
      LulcRows[i].px_total # 0 => Within1pct(LulcRows[i].p_sum)

(* C2 amended: a hexagon with px_total # 0 whose histogram holds only codes
   of the WorldCover legend has p_sum within 1.0 +- 0.01; with other codes
   p_sum is the mapped share of the pixels and never exceeds 1 *)
C2_SumIsOneForLegendCodes ==
  Exists(fs, LULC_FEAT) =>
    \A i \in DOMAIN LulcRows :
      LET row == LulcRows[i]
          z == HistOf(row.h3_id)
      IN row.px_total # 0 =>
           /\ DOMAIN z.d \subseteq LegendCodes => Within1pct(row.p_sum)
           /\ row.p_sum.num * AllCount(z.d)
                = CountIn(z.d, LegendCodes) * row.p_sum.den

C2_Witness ==
  /\ Exists(fs, LULC_FEAT)
  /\ \E i, j \in DOMAIN LulcRows :
       /\ HistOf(LulcRows[i].h3_id) = DictZs((20 :> 3) @@ (30 :> 7))
       /\ RatEq(LulcRows[i].p_sum, Rat(1, 1))
       /\ HistOf(LulcRows[j].h3_id) = DictZs((0 :> 3) @@ (10 :> 7))
       /\ RatGt(Rat(1, 1), LulcRows[j].p_sum)

(* C3: a hexagon whose zonal histogram is None or empty gets px_total 0,
   every proportion 0.0 and p_sum 0.0; the stage raises nothing and the
   hexagon's row is emitted *)
C3_UncoveredHexagonIsZeroRow ==
  Ran04 =>
    /\ res.err = "ok"
    /\ Exists(fs, LULC_FEAT)
    /\ Len(LulcRows) = Len(fs[HEX_PATH_04].rows)
    /\ \A i \in DOMAIN LulcRows :
         LET row == LulcRows[i]
             z == HistOf(row.h3_id)
         IN /\ row.h3_id = fs[HEX_PATH_04].rows[i].h3_id
            /\ ~Covered(z) =>
                 /\ row.px_total = 0
                 /\ \A m \in DOMAIN macro_map : row.p[m] = Zero
                 /\ row.p_sum = Zero

C3_Witness ==
  /\ Ran04
  /\ \E i, j \in DOMAIN LulcRows :
       /\ HistOf(LulcRows[i].h3_id) = NoneZs
       /\ HistOf(LulcRows[j].h3_id) = DictZs(<< >>)
       /\ LulcRows[i].px_total = 0 /\ LulcRows[j].px_total = 0

(* the summed proportion of a hexagon, recomputed from its histogram *)
ExpectedSumNum(z) ==
  SumOver([m \in DOMAIN macro_map |-> CountIn(z.d, macro_map[m])],
          DOMAIN macro_map)
Offending(id) ==
  LET z == HistOf(id)
  IN Covered(z) /\ 100 * ExpectedSumNum(z) > 101 * AllCount(z.d)
GridIds == [i \in DOMAIN fs[HEX_PATH_04].rows |-> fs[HEX_PATH_04].rows[i].h3_id]
OffendingIds == SelectRows(GridIds, [i \in DOMAIN GridIds |-> Offending(GridIds[i])])
MsgIds == [i \in DOMAIN res.msg |-> res.msg[i].h3_id]

(* C4: the stage raises the proportion-overflow error iff some hexagon has
   p_sum > 1.01; otherwise (sums below 1.0 included) the table is persisted *)
C4_OverflowIffAboveTolerance ==
  Ran04 =>
    /\ res.err = "ValueError" <=> OffendingIds # << >>
    /\ OffendingIds = << >> =>
         /\ res.err = "ok"
         /\ Exists(fs, LULC_FEAT)
         /\ Len(LulcRows) = Len(GridIds)

C4_Witness ==
  /\ Ran04 /\ res.err = "ok" /\ macro_map = OverlapMap
  /\ Len(LulcRows) = NCellsCfg
  /\ \E i, j \in DOMAIN LulcRows :
       /\ RatGt(LulcRows[i].p_sum, Rat(1, 1))
       /\ RatGt(Rat(1, 1), LulcRows[j].p_sum)

(* C5 as stated: the error lists the id of every offending hexagon *)
C5_EveryOffenderListed ==
  (Ran04 /\ res.err = "ValueError") =>
    Range(OffendingIds) \subseteq Range(MsgIds)

(* C5 amended: the error lists the first five offending hexagons in row
   order, which is all of them when there are at most five *)
C5_FirstFiveOffendersListed ==
  (Ran04 /\ res.err = "ValueError") =>
    /\ MsgIds = HeadRows(OffendingIds, 5)
    /\ \A i \in DOMAIN res.msg : RatGt(res.msg[i].p_sum, Rat(101, 100))

C5_Witness ==
  /\ Ran04 /\ res.err = "ValueError"
  /\ Len(OffendingIds) > 5
  /\ Len(res.msg) = 5

-----------------------------------------------------------------------------
(* Properties of the grid builder *)

Footprint(c) == {<<2 * c - 1, 0>>, <<2 * c, 0>>}
AoiPts == fs[AOI_GPKG].rows[1].geometry.pts
GridTables == {GRID_GPQ, GRID_GEOJSON}

(* C6: the persisted grid has pairwise distinct cell ids and every persisted
   cell's boundary polygon intersects the AOI geometry *)
C6_GridCellsDistinctAndIntersectAoi ==
  \A g \in GridTables :
    Exists(fs, g) =>
      LET rows == fs[g].rows
      IN /\ \A i, j \in DOMAIN rows : rows[i].h3_id = rows[j].h3_id => i = j
         /\ \A i \in DOMAIN rows :
              /\ rows[i].geometry.pts = Footprint(rows[i].h3_id)
              /\ Footprint(rows[i].h3_id) \cap AoiPts # {}

C6_Witness ==
  /\ res.stage = "02" /\ res.err = "ok"
  /\ Exists(fs, GRID_GPQ)
  /\ AoiPts = {<<2, 0>>, <<3, 0>>}
  /\ {fs[GRID_GPQ].rows[i].h3_id : i \in DOMAIN fs[GRID_GPQ].rows} = {1, 2}

-----------------------------------------------------------------------------
(* Properties of the climate stage *)

Ran03 == /\ res.stage = "03"
         /\ Exists(fs, GRID_GPQ) /\ Exists(fs, BIO1_TIF) /\ Exists(fs, BIO12_TIF)
ClimRows == fs[WC_FEAT].rows

(* C7: a hexagon without a valid pixel in a climate raster gets a null mean
   (not 0), bio1_mean_c is null as well, the stage does not raise and the
   row stays in the output under the same hexagon id *)
C7_NoCoverageGivesNullMean ==
  Ran03 =>
    /\ res.err = "ok"
    /\ Exists(fs, WC_FEAT)
    /\ Len(ClimRows) = Len(fs[GRID_GPQ].rows)
    /\ \A i \in DOMAIN ClimRows :
         LET row == ClimRows[i]
             id == fs[GRID_GPQ].rows[i].h3_id
             m1 == fs[BIO1_TIF].mean[id]
             m12 == fs[BIO12_TIF].mean[id]
         IN /\ row.h3_id = id
            /\ row.bio1_mean_raw = m1
            /\ row.bio12_mean_mm = m12
            /\ m1.isnull => row.bio1_mean_c = NaN
            /\ ~m1.isnull => /\ ~row.bio1_mean_c.isnull
                             /\ RatEq(row.bio1_mean_c, Rat(m1.num, 10 * m1.den))

C7_Witness ==
  /\ Ran03 /\ res.err = "ok"
  /\ \E i, j \in DOMAIN ClimRows :
       /\ i < j
       /\ ClimRows[i].bio1_mean_raw = NaN /\ ClimRows[i].bio1_mean_c = NaN
       /\ ClimRows[i].bio12_mean_mm = Rat(250, 1)
       /\ ClimRows[j].bio1_mean_raw = Rat(0, 1) /\ ClimRows[j].bio12_mean_mm = NaN

-----------------------------------------------------------------------------
(* Properties of the AOI resolver *)

Ran01 == res.stage = "01" /\ Exists(fs, BIOMES_PATH)
Biomes == fs[BIOMES_PATH]
NameCol == Column(Biomes, _find_biome_column(Biomes).col)
HasNameCol == Biomes.nrows > 0 /\ _find_biome_column(Biomes).found
RowsWhere(P(_)) == {r \in 1..Biomes.nrows : P(NameCol.vals[r])}
EqualsName(v) == Lower(v) = Lower(AOI_NAME)
EqualsNameTrimmed(v) == Lower(Strip(v)) = Lower(AOI_NAME)
ContainsName(v) == Contains(Lower(v), Lower(AOI_NAME))
UnionPts(R) == UNION {Biomes.geoms[r].pts : r \in R}
SelectionIs(R) ==
  /\ R = {} <=> res.why = "region not found"
  /\ res.err = "ok" =>
       /\ fs[AOI_GPKG].rows[1].geometry.pts = UnionPts(R)
       /\ fs[AOI_GPQ] = fs[AOI_GPKG]

(* C10 as stated: the rows selected are those whose name equals the target
   case-insensitively, or, when there is none, those containing it; the
   stage fails with the not-found error when both filters select nothing *)
C10_ExactThenContains ==
  (Ran01 /\ HasNameCol) =>
    SelectionIs(IF RowsWhere(EqualsName) # {} THEN RowsWhere(EqualsName)
                ELSE RowsWhere(ContainsName))

(* C10 amended: the exact filter compares the name with leading and
   trailing whitespace removed *)
C10_TrimmedExactThenContains ==
  (Ran01 /\ HasNameCol) =>
    SelectionIs(IF RowsWhere(EqualsNameTrimmed) # {} THEN RowsWhere(EqualsNameTrimmed)
                ELSE RowsWhere(ContainsName))

C10_Witness ==
  /\ Ran01 /\ HasNameCol /\ res.err = "ok"
  /\ Biomes.nrows = 2
  /\ RowsWhere(EqualsNameTrimmed) = {2}
  /\ RowsWhere(ContainsName) = {1, 2}
  /\ fs[AOI_GPKG].rows[1].geometry.pts = {<<4, 0>>, <<5, 0>>}

-----------------------------------------------------------------------------
(* Properties of the merge *)

OutRows == fs[OUT_TABLE].rows
WcRowsOf(id) == {j \in DOMAIN ClimRows : ClimRows[j].h3_id = id}
Db == fs[DB_PATH]

(* C8: merging the climate means is a left join that keeps every hexagon id
   of the left table exactly once and in the left table's order; a hexagon
   without a climate row carries null climate values *)
C8_LeftJoinKeepsEveryHexagonOnce ==
  /\ Exists(fs, OUT_TABLE) =>
       /\ Len(OutRows) = Len(LulcRows)
       /\ \A i \in DOMAIN OutRows :
            /\ OutRows[i].h3_id = LulcRows[i].h3_id
            /\ OutRows[i].p = LulcRows[i].p
            /\ WcRowsOf(OutRows[i].h3_id) = {} =>
                 OutRows[i].bio1_mean_c = NaN /\ OutRows[i].bio12_mean_mm = NaN
            /\ \A j \in WcRowsOf(OutRows[i].h3_id) :
                 /\ OutRows[i].bio1_mean_c = ClimRows[j].bio1_mean_c
                 /\ OutRows[i].bio12_mean_mm = ClimRows[j].bio12_mean_mm
  /\ Exists(fs, DB_PATH) =>
       /\ Len(Db.dim_hex) = Len(fs[GRID_GPQ].rows)
       /\ \A i \in DOMAIN Db.dim_hex :
            Cardinality({j \in DOMAIN Db.feat_all :
                           Db.feat_all[j].h3_id = Db.dim_hex[i].h3_id}) = 1
       /\ Len(Db.feat_all) = Len(Db.dim_hex)

C8_Witness ==
  /\ Exists(fs, OUT_TABLE) /\ Exists(fs, DB_PATH)
  /\ Len(OutRows) = 2
  /\ OutRows[1].h3_id = 1 /\ OutRows[1].bio12_mean_mm = Rat(1200, 1)
  /\ OutRows[2].h3_id = 2 /\ OutRows[2].bio12_mean_mm = NaN
  /\ \E j \in DOMAIN ClimRows : ClimRows[j].h3_id = 3
  /\ \E j \in DOMAIN Db.feat_all : Db.feat_all[j].h3_id = 3

-----------------------------------------------------------------------------
(* Properties of the pipeline *)

(* C9: a stage that fails raises before it writes its first output file, so
   a failed stage leaves every file as it was *)
C9_FailedStageWritesNothing ==
  [][res'.err # "ok" => fs' = fs]_vars

C9_Witness ==
  /\ res.stage = "03" /\ res.err = "FileNotFoundError"
  /\ res.msg = <<BIO12_TIF>>
  /\ Exists(fs, BIO1_TIF) /\ Exists(fs, GRID_GPQ)
  /\ ~Exists(fs, WC_FEAT)

-----------------------------------------------------------------------------
(* Inputs of the cluster engine: fixed grids and rasters from which stages
   03 and 04 build the feature tables, and every assignment of scores to
   the candidate cluster counts *)

InitCluster ==
  /\ fs = [EmptyFs EXCEPT
             ![GRID_GPQ] = GridOf(Cells), ![GRID_GEOJSON] = GridOf(Cells),
             ![BIO1_TIF] = [kind |-> "raster", mean |-> [c \in Cells |-> Rat(250, 1)]],
             ![BIO12_TIF] = [kind |-> "raster", mean |-> [c \in Cells |-> Rat(1200, 1)]],
             ![HEX_PATH_04] = GridOf(Hexes), ![HEX_GEOJSON_06] = GridOf(Hexes),
             ![WC_RASTER] = WcRasterFixed]
  /\ macro_map = MACRO_MAP
  /\ \E ok \in BOOLEAN, sc \in [DOMAIN k_candidates -> ScoreVals] :
       sklearn = [DefaultSklearn EXCEPT !.fits = ok, !.scores = sc]
  /\ h3_rim = {}
  /\ res = NoRes

NextCluster == Stage03 \/ Stage04 \/ Stage06

SpecCluster == InitCluster /\ [][NextCluster]_vars

-----------------------------------------------------------------------------
(* C11: name-column lookup *)

Called == res.stage = "_find_biome_column"

(* positions of the prioritized list whose name is a column of the dataset *)
CandidateHits == {i \in DOMAIN candidates : candidates[i] \in Range(ColNames(Biomes))}

(* positions of the string columns with a value containing the region name *)
ScanHits ==
  {i \in DOMAIN Biomes.cols :
     /\ Biomes.cols[i].dtype = "object"
     /\ \E r \in DOMAIN Biomes.cols[i].vals :
          Contains(Lower(Biomes.cols[i].vals[r]), Lower(AOI_NAME))}

Least(S) == CHOOSE i \in S : \A j \in S : i <= j

(* C11: the lookup returns the first name of the prioritized candidate list
   that is a column of the dataset; only when no candidate is a column does
   it return the first string column (in column order) with a value that
   contains the configured region name case-insensitively; when neither
   exists it fails with the schema error. *)
C11_CandidateThenScanThenSchemaError ==
  Called =>
    IF CandidateHits # {}
    THEN res.err = "ok" /\ res.msg = <<candidates[Least(CandidateHits)]>>
    ELSE IF ScanHits # {}
    THEN res.err = "ok" /\ res.msg = <<ColNames(Biomes)[Least(ScanHits)]>>
    ELSE res.err = "ValueError" /\ res.why = "no name column"

(* two candidates are columns and the one returned is not the first column *)
C11_Witness ==
  /\ Called /\ res.err = "ok"
  /\ Cardinality(CandidateHits) = 2
  /\ res.msg # <<ColNames(Biomes)[1]>>

(* no candidate is a column and the second string column is the one found *)
C11_WitnessScan ==
  /\ Called /\ res.err = "ok"
  /\ CandidateHits = {} /\ ScanHits = {2}
  /\ Biomes.cols[1].dtype = "object"

C11_WitnessSchemaError ==
  Called /\ res.err = "ValueError" /\ Biomes.nrows > 0

-----------------------------------------------------------------------------
(* C12: choice of the cluster count *)

Ran06 == res.stage = "06"
MaxScore == CHOOSE m \in Range(sklearn.scores) : \A x \in Range(sklearn.scores) : x <= m
MaxAt == {i \in DOMAIN k_candidates : sklearn.scores[i] = MaxScore}
ClusterRows == fs[OUT_TABLE].rows

(* C12: whatever scores the candidate cluster counts get, a run of stage 06
   that reaches the scan (inputs present, data fit for clustering) ends
   with a chosen count: the first candidate, in list order, whose score is
   the maximum over all candidates; every row records that count and that
   maximum score. *)
C12_FirstCandidateWithMaxScore ==
  (/\ Ran06 /\ sklearn.fits
   /\ Exists(fs, HEX_GEOJSON_06) /\ Exists(fs, LULC_FEAT) /\ Exists(fs, WC_FEAT))
  => /\ res.err = "ok"
     /\ \A i \in DOMAIN ClusterRows :
          /\ ClusterRows[i].cluster_k \in Range(k_candidates)
          /\ ClusterRows[i].cluster_k = k_candidates[Least(MaxAt)]
          /\ ClusterRows[i].silhouette = MaxScore

(* the maximum is reached by two candidates, neither being the first of
   the list, and rows were written *)
C12_Witness ==
  /\ Ran06 /\ res.err = "ok"
  /\ ClusterRows # << >>
  /\ Cardinality(MaxAt) = 2 /\ 1 \notin MaxAt /\ 5 \in MaxAt

-----------------------------------------------------------------------------
(* C13: order and repeatability of the grid *)

GridIds02 == [i \in DOMAIN fs[GRID_GPQ].rows |-> fs[GRID_GPQ].rows[i].h3_id]

(* the covering the library returns for the AOI at hand, and what is left
   of it after the intersection filter *)
Covering == {c \in Cells : Footprint(c) \subseteq AoiPts} \cup h3_rim
KeptCells == {c \in Covering : Footprint(c) \cap AoiPts # {}}

(* C13: the persisted hex table lists its cells in ascending order of cell
   id (the intersection filter keeps the sorted order), and the sequence of
   ids is fixed by the AOI and the resolution (through the covering the
   library computes for them), so that a second run on the same AOI writes
   the same sequence. *)
C13_GridAscendingAndRepeatable ==
  Exists(fs, GRID_GPQ) =>
    /\ \A i, j \in DOMAIN GridIds02 : i < j => GridIds02[i] < GridIds02[j]
    /\ Range(GridIds02) = KeptCells
    /\ fs[GRID_GEOJSON] = fs[GRID_GPQ]

(* a grid of several rows from which the filter removed a covering cell *)
C13_Witness ==
  /\ res.stage = "02" /\ res.err = "ok"
  /\ Exists(fs, GRID_GPQ)
  /\ Len(GridIds02) >= 2
  /\ KeptCells # Covering

-----------------------------------------------------------------------------
(* C14: hand-over of artifacts between the stages *)

MissingInput == res.err = "FileNotFoundError"

(* C14: once the stage that produces them has written its outputs (and the
   raw inputs are in place), the next stage finds every processed artifact
   it reads under the path it reads it from: stage 02 the AOI file of stage
   01, stages 03 and 04 the hex grid of stage 02, stage 06 the hex grid and
   the two feature tables; none of them aborts on a missing input. *)
C14_StagesReadWhatEarlierStagesWrote ==
  /\ (res.stage = "02" /\ Exists(fs, AOI_GPKG)) => ~MissingInput
  /\ (res.stage = "03" /\ Exists(fs, GRID_GPQ)
         /\ Exists(fs, BIO1_TIF) /\ Exists(fs, BIO12_TIF)) => ~MissingInput
  /\ (res.stage = "04" /\ Exists(fs, GRID_GPQ) /\ Exists(fs, WC_RASTER)) => ~MissingInput
  /\ (res.stage = "06" /\ Exists(fs, GRID_GEOJSON)
         /\ Exists(fs, LULC_FEAT) /\ Exists(fs, WC_FEAT)) => ~MissingInput

-----------------------------------------------------------------------------
(* C15: the built-in macro map cannot overflow *)

PairwiseDisjoint(mm) ==
  \A a, b \in DOMAIN mm : a # b => mm[a] \cap mm[b] = {}

InUnitInterval(r) == ~r.isnull /\ 0 <= r.num /\ r.num <= r.den /\ r.den > 0

(* C15: the configured class-to-macro-category mapping has pairwise
   disjoint code sets, and with it, whatever the zonal histograms, every
   stored macro-category proportion lies in [0, 1], p_sum is at most 1 and
   stage 04 never raises the proportion-overflow error. *)
C15_BuiltinMapNeverOverflows ==
  /\ PairwiseDisjoint(macro_map)
  /\ Ran04 => res.err = "ok"
  /\ Exists(fs, LULC_FEAT) =>
       \A i \in DOMAIN LulcRows :
         /\ \A m \in DOMAIN macro_map : InUnitInterval(LulcRows[i].p[m])
         /\ InUnitInterval(LulcRows[i].p_sum)

(* a hexagon whose pixels all fall into one category (proportion 1) next to
   one with unmapped pixels *)
C15_Witness ==
  /\ Ran04 /\ res.err = "ok"
  /\ \E i, j \in DOMAIN LulcRows :
       /\ HistOf(LulcRows[i].h3_id).kind = "dict"
       /\ DOMAIN HistOf(LulcRows[i].h3_id).d = {20, 30}
       /\ RatEq(LulcRows[i].p["p_shrub_grass"], Rat(1, 1))
       /\ RatEq(LulcRows[i].p_sum, Rat(1, 1))
       /\ HistOf(LulcRows[j].h3_id).kind = "dict"
       /\ 0 \in DOMAIN HistOf(LulcRows[j].h3_id).d
       /\ LulcRows[j].px_total > 0

====
